---- MODULE Spec2Model ----
(***************************************************************************)
(* Verification model of the daily stock-price ETL script src/main.py:     *)
(* extract (snapshot cache + remote fetch), _latest_file_for, parse_json,  *)
(* transform, load (SQLite upsert in one transaction) and run_once.        *)
(***************************************************************************)
EXTENDS Integers, Sequences, FiniteSets, TLC

(***************************************************************************)
(* Bounds of the model                                                     *)
(***************************************************************************)
\* the clock runs over the seconds 0..MaxNow
MaxNow == 3
\* a calendar day of the model lasts this many seconds
SecondsPerDay == 2
\* network calls counted before fetching calls are cut off
MaxCalls == 4
\* load calls recorded in the call history
MaxLoads == 2

(***************************************************************************)
(* Values                                                                  *)
(***************************************************************************)
\* main.py:17
SYMBOLS == <<"AAPL", "GOOG", "MSFT">>

\* symbols a caller may pass to extract / transform; "GOOG_L" is a ticker
\* whose file names start with "GOOG_", the prefix of GOOG's glob pattern
AllSymbols == {"AAPL", "GOOG", "GOOG_L", "MSFT"}

\* rank of a symbol in Python's str order ("AAPL" < "GOOG" < "GOOG_L" < "MSFT")
SymRank(s) ==
    CASE s = "AAPL" -> 1 [] s = "GOOG" -> 2 [] s = "GOOG_L" -> 3 [] s = "MSFT" -> 4

\* t is s followed by "_" and more characters
Extends(t, s) == t = "GOOG_L" /\ s = "GOOG"

\* date.today() at clock value t, as the day number of the ISO date
Today(t) == (t \div SecondsPerDay) + 1

\* PATH / f"{symbol}_{date}.json"
FileName(symbol, day) == [symbol |-> symbol, date |-> day]

\* a trading-date key of the time series, as the provider may write it:
\* "2024-01-02" (form "date") or "2024-01-02 00:00:00" (form "datetime")
DateKey(day, form) == [day |-> day, form |-> form]

\* pd.to_datetime(d): both forms of a day give the same Timestamp
to_datetime(d) == d.day

\* Timestamp -> .dt.date.astype(str): the canonical ISO date string
IsoDate(ts) == DateKey(ts, "date")

\* a field the payload does not supply
Missing == "missing"

\* float(str) / int(str); "x" is a string that is not a number
IsNumeric(s) == s \in {"0", "1", "2", "3"}
Float(s) == CASE s = "0" -> 0 [] s = "1" -> 1 [] s = "2" -> 2 [] s = "3" -> 3

Bar(o, h, l, c, v) == [open |-> o, high |-> h, low |-> l, close |-> c, volume |-> v]
Entry(d, bar) == [d |-> d, bar |-> bar]
\* a decoded JSON document: with or without the "Time Series (Daily)" key,
\* whose value is an insertion-ordered dict, here a sequence of entries
Payload(container, series) == [container |-> container, series |-> series]

BarUp    == Bar("1", "2", "1", "2", "3")
BarDown  == Bar("2", "3", "1", "1", "2")
BarFlat  == Bar("3", "3", "3", "3", "1")
BarZero  == Bar("0", "1", "0", "1", "1")
BarZeroZ == Bar("0", "0", "0", "0", "0")
BarShort == Bar("1", "2", "1", "2", Missing)
BarText  == Bar("1", "x", "1", "2", "1")

P_Good     == Payload(TRUE, <<Entry(DateKey(2, "date"), BarUp), Entry(DateKey(1, "date"), BarDown)>>)
P_Other    == Payload(TRUE, <<Entry(DateKey(1, "date"), BarFlat)>>)
P_Dup      == Payload(TRUE, <<Entry(DateKey(1, "date"), BarUp), Entry(DateKey(1, "datetime"), BarDown)>>)
P_ZeroInf  == Payload(TRUE, <<Entry(DateKey(1, "date"), BarZero)>>)
P_ZeroNaN  == Payload(TRUE, <<Entry(DateKey(2, "date"), BarUp), Entry(DateKey(1, "date"), BarZeroZ)>>)
P_NoSeries == Payload(FALSE, <<>>)
P_Empty    == Payload(TRUE, <<>>)
P_BadBar   == Payload(TRUE, <<Entry(DateKey(1, "date"), BarShort)>>)
P_BadNum   == Payload(TRUE, <<Entry(DateKey(1, "date"), BarText)>>)

NoErr == [kind |-> "none", symbol |-> "none", msg |-> "none"]
Err(kind, symbol, msg) == [kind |-> kind, symbol |-> symbol, msg |-> msg]

VARIABLES
    now,        \* the clock, in seconds
    pydantic,   \* the installed pydantic major version, "v1" or "v2"
    store,      \* data/raw_data: file name -> decoded JSON content
    netCalls,   \* requests.get calls made so far
    table,      \* committed rows of stock_daily_data
    nextId,     \* the AUTOINCREMENT counter
    txn,        \* the load call in progress and its open transaction
    run,        \* run_once: position and progress
    history,    \* the load calls that committed, oldest first
    last,       \* the last call that returned or raised, with its outcome
    conc        \* calls running side by side: their positions and the database lock

vars == <<now, pydantic, store, netCalls, table, nextId, txn, run, history, last, conc>>

(***************************************************************************)
(* Schema validation (main.py:29-46)                                       *)
(***************************************************************************)
\* _DailyBar: the five aliased fields are present
_DailyBar(bar) ==
    /\ bar.open # Missing /\ bar.high # Missing /\ bar.low # Missing
    /\ bar.close # Missing /\ bar.volume # Missing

\* _Payload: the container is present and every value is a _DailyBar
_Payload(payload) ==
    /\ payload.container
    /\ \A i \in 1..Len(payload.series) : _DailyBar(payload.series[i].bar)

\* pydantic v2: model_validate; a ValidationError is re-raised as a ValueError
\* naming the symbol. pydantic v1: model_validate is an AttributeError, the
\* handler calls parse_obj, and a ValidationError raised inside that handler is
\* not caught by the sibling except clause: it propagates as it is.
_validate_payload(payload, symbol, version) ==
    IF _Payload(payload)
    THEN [ok |-> TRUE, ts |-> payload.series, err |-> NoErr]
    ELSE IF version = "v2"
         THEN [ok |-> FALSE, ts |-> <<>>,
               err |-> Err("ValueError", symbol, "invalid API payload")]
         ELSE [ok |-> FALSE, ts |-> <<>>,
               err |-> Err("ValidationError", "none", "validation error for _Payload")]

(***************************************************************************)
(* parse_json (main.py:70-90)                                              *)
(***************************************************************************)
\* (close - open) / open * 100 in float64: a quotient, or inf / nan for open = 0
DailyChange(open, close) ==
    IF open # 0 THEN [kind |-> "num", num |-> (close - open) * 100, den |-> open]
    ELSE IF close > 0 THEN [kind |-> "inf", num |-> 0, den |-> 0]
    ELSE IF close < 0 THEN [kind |-> "-inf", num |-> 0, den |-> 0]
    ELSE [kind |-> "nan", num |-> 0, den |-> 0]

\* the numeric conversions of one entry all succeed
Convertible(bar) ==
    /\ IsNumeric(bar.open) /\ IsNumeric(bar.high) /\ IsNumeric(bar.low)
    /\ IsNumeric(bar.close) /\ IsNumeric(bar.volume)

\* rows.append({...})
RawRow(symbol, e) ==
    [symbol |-> symbol, date |-> to_datetime(e.d),
     open |-> Float(e.bar.open), high |-> Float(e.bar.high), low |-> Float(e.bar.low),
     close |-> Float(e.bar.close), volume |-> Float(e.bar.volume)]

\* RowLessEq with the symbol column left out of the sort key
RowLessEq_dateOnly(a, b, bySymbol) == a.date <= b.date

\* sort order of the rows: by date, or by (symbol, date)
RowLessEq(a, b, bySymbol) ==
    IF bySymbol /\ a.symbol # b.symbol
    THEN SymRank(a.symbol) < SymRank(b.symbol)
    ELSE a.date <= b.date

\* insert x behind the last element that is not greater than x
RECURSIVE InsertRow(_, _, _)
InsertRow(x, sorted, bySymbol) ==
    IF sorted = <<>> THEN <<x>>
    ELSE IF RowLessEq(sorted[Len(sorted)], x, bySymbol)
         THEN Append(sorted, x)
         ELSE Append(InsertRow(x, SubSeq(sorted, 1, Len(sorted) - 1), bySymbol),
                     sorted[Len(sorted)])

\* DataFrame.sort_values(...).reset_index(drop=True); rows with equal keys keep
\* their order (the sort is an insertion sort for frames this small)
RECURSIVE sort_values(_, _)
sort_values(rows, bySymbol) ==
    IF rows = <<>> THEN <<>>
    ELSE InsertRow(rows[Len(rows)],
                   sort_values(SubSeq(rows, 1, Len(rows) - 1), bySymbol), bySymbol)

\* df["daily_change_percentage"] = ...
WithChange(r) ==
    [symbol |-> r.symbol, date |-> r.date, open |-> r.open, high |-> r.high,
     low |-> r.low, close |-> r.close, volume |-> r.volume,
     daily_change_percentage |-> DailyChange(r.open, r.close)]

parse_json(payload, symbol, version) ==
    LET v == _validate_payload(payload, symbol, version)
        n == Len(v.ts)
    IN  IF ~v.ok THEN [ok |-> FALSE, df |-> <<>>, err |-> v.err]
        ELSE IF \E i \in 1..n : ~Convertible(v.ts[i].bar)
             THEN [ok |-> FALSE, df |-> <<>>,
                   err |-> Err("ValueError", "none", "could not convert string")]
        ELSE IF n = 0
             THEN [ok |-> FALSE, df |-> <<>>, err |-> Err("KeyError", "none", "date")]
        ELSE LET rows == [i \in 1..n |-> RawRow(symbol, v.ts[i])]
                 sorted == sort_values(rows, FALSE)
             IN  [ok |-> TRUE, df |-> [i \in 1..n |-> WithChange(sorted[i])],
                  err |-> NoErr]

(***************************************************************************)
(* Snapshot lookup (main.py:64-68)                                         *)
(***************************************************************************)
\* PATH.glob(f"{symbol}_*.json"): every file whose name starts with symbol + "_"
Glob(symbol, st) ==
    {f \in DOMAIN st : f.symbol = symbol \/ Extends(f.symbol, symbol)}

\* order of two file names as path strings. Same symbol: the ISO dates decide.
\* "GOOG_2..." < "GOOG_L_...": after the common "GOOG_" a digit is smaller
\* than a letter. Otherwise the symbols differ before either ends.
PathLess(f, g) ==
    IF f.symbol = g.symbol THEN f.date < g.date
    ELSE IF Extends(g.symbol, f.symbol) THEN TRUE
    ELSE IF Extends(f.symbol, g.symbol) THEN FALSE
    ELSE SymRank(f.symbol) < SymRank(g.symbol)

\* sorted(files)[-1], or FileNotFoundError when the glob is empty
_latest_file_for(symbol, st) ==
    LET files == Glob(symbol, st)
    IN  IF files = {}
        THEN [ok |-> FALSE, path |-> FileName("none", 0),
              err |-> Err("FileNotFoundError", symbol, "No json files")]
        ELSE [ok |-> TRUE,
              path |-> CHOOSE f \in files : \A g \in files : g = f \/ PathLess(g, f),
              err |-> NoErr]

(***************************************************************************)
(* transform (main.py:93-100)                                              *)
(***************************************************************************)
\* the loop over the symbols: the first failure ends the call, otherwise the
\* frames are concatenated in the order of the symbols
RECURSIVE Frames(_, _, _, _, _)
Frames(symbols, i, acc, st, version) ==
    IF i > Len(symbols) THEN [ok |-> TRUE, df |-> acc, err |-> NoErr]
    ELSE LET raw_path == _latest_file_for(symbols[i], st)
         IN  IF ~raw_path.ok THEN [ok |-> FALSE, df |-> <<>>, err |-> raw_path.err]
             ELSE LET frame == parse_json(st[raw_path.path], symbols[i], version)
                  IN  IF ~frame.ok THEN [ok |-> FALSE, df |-> <<>>, err |-> frame.err]
                      ELSE Frames(symbols, i + 1, acc \o frame.df, st, version)

SameKey(a, b) == a.symbol = b.symbol /\ a.date = b.date

\* DataFrame.drop_duplicates(subset=["symbol", "date"]): keep="first" by default,
\* so a row stays when no earlier row has its key
RECURSIVE KeepFirst(_, _)
KeepFirst(rows, i) ==
    IF i > Len(rows) THEN <<>>
    ELSE (IF \A j \in 1..(i - 1) : ~SameKey(rows[j], rows[i]) THEN <<rows[i]>> ELSE <<>>)
         \o KeepFirst(rows, i + 1)

\* drop_duplicates with keep="last"
drop_duplicates_last(rows) ==
    LET n == Len(rows)
        rev == [i \in 1..n |-> rows[n + 1 - i]]
        kept == KeepFirst(rev, 1)
    IN  [i \in 1..Len(kept) |-> kept[Len(kept) + 1 - i]]

drop_duplicates(rows) == KeepFirst(rows, 1)

transform(symbols, st, version) ==
    LET frames == Frames(symbols, 1, <<>>, st, version)
    IN  IF ~frames.ok THEN frames
        ELSE IF symbols = <<>>
             THEN [ok |-> FALSE, df |-> <<>>,
                   err |-> Err("ValueError", "none", "No objects to concatenate")]
        ELSE [ok |-> TRUE, df |-> sort_values(drop_duplicates(frames.df), TRUE),
              err |-> NoErr]

(***************************************************************************)
(* Initial values                                                          *)
(***************************************************************************)
\* what a call returned: None, or an integer
RetNone == [none |-> TRUE, value |-> 0]
RetInt(n) == [none |-> FALSE, value |-> n]

NoCall == [op |-> "none"]
NoTxn == [active |-> FALSE]
NoRun == [pc |-> "idle", i |-> 0, attempted |-> {}, err |-> NoErr, ret |-> RetNone]
EmptyStore == [f \in {} |-> P_Empty]

\* the processes that may run a call side by side
Procs == {1, 2}
\* an extract call that is not running
NoWorker ==
    [pc |-> "idle", symbol |-> "none", overwrite |-> FALSE, path |-> FileName("none", 0),
     data |-> P_Empty, raised |-> FALSE, i |-> 0]
\* a load call that is not running
NoLoader ==
    [pc |-> "idle", df |-> <<>>, ts |-> [sec |-> 0, zone |-> "Z"], i |-> 0, met |-> FALSE]
\* no call runs and nobody holds the write lock of the database
NoConc ==
    [ex |-> [p \in Procs |-> NoWorker], ld |-> [p \in Procs |-> NoLoader],
     lock |-> 0, rows |-> {}, seq |-> 0]

InitRest ==
    /\ now = 0
    /\ netCalls = 0
    /\ table = {}
    /\ nextId = 1
    /\ txn = NoTxn
    /\ run = NoRun
    /\ history = <<>>
    /\ last = NoCall
    /\ conc = NoConc

(***************************************************************************)
(* transform as a function of the snapshot store                           *)
(***************************************************************************)
\* snapshots present in a store drawn for transform
MaxFiles == 2

TFiles ==
    {FileName("AAPL", 1), FileName("GOOG", 1), FileName("GOOG", 2),
     FileName("GOOG_L", 1), FileName("MSFT", 1)}

TPayloads == {P_Good, P_Dup, P_ZeroInf, P_NoSeries, P_Empty, P_BadNum}

\* lists of one or two symbols, and the configured list
SymbolLists ==
    {<<s>> : s \in AllSymbols} \cup {<<s, t>> : s, t \in AllSymbols} \cup {SYMBOLS, <<>>}

InitT ==
    /\ pydantic \in {"v1", "v2"}
    /\ \E fs \in SUBSET TFiles :
          /\ Cardinality(fs) <= MaxFiles
          /\ store \in [fs -> TPayloads]
    /\ InitRest

\* a call transform(symbols)
Transform(symbols) ==
    /\ run.pc = "idle" /\ ~txn.active
    /\ LET r == transform(symbols, store, pydantic)
       IN  last' = [op |-> "transform", symbols |-> symbols,
                    ok |-> r.ok, df |-> r.df, err |-> r.err]
    /\ UNCHANGED <<conc, now, pydantic, store, netCalls, table, nextId, txn, run, history>>

NextT == \E symbols \in SymbolLists : Transform(symbols)

SpecT == InitT /\ [][NextT]_vars

\* a call _latest_file_for(symbol)
LatestFile(symbol) ==
    /\ run.pc = "idle" /\ ~txn.active
    /\ LET r == _latest_file_for(symbol, store)
       IN  last' = [op |-> "latest", symbol |-> symbol, ok |-> r.ok, path |-> r.path,
                    err |-> r.err]
    /\ UNCHANGED <<conc, now, pydantic, store, netCalls, table, nextId, txn, run, history>>

NextS == \E symbol \in AllSymbols : LatestFile(symbol)

\* the snapshot lookup over the stores drawn for transform
SpecS == InitT /\ [][NextS]_vars

(***************************************************************************)
(* The clock                                                               *)
(***************************************************************************)
Tick ==
    /\ now < MaxNow
    /\ now' = now + 1
    /\ UNCHANGED <<conc, pydantic, store, netCalls, table, nextId, txn, run, history, last>>

(***************************************************************************)
(* extract (main.py:49-62)                                                 *)
(***************************************************************************)
\* what requests.get / raise_for_status / response.json give: a decoded body,
\* a non-success status, or a transport failure
Response(status, body) == [status |-> status, body |-> body]

\* a write that leaves only the written file in the directory
WriteFile_only(st, f, data) == [g \in {f} |-> data]

\* json.dump into filename.open("w"): the file is created or replaced
WriteFile(st, f, data) ==
    [g \in DOMAIN st \cup {f} |-> IF g = f THEN data ELSE st[g]]

\* extract that fetches whether or not today's file exists
extract_nocache(symbol, overwrite, resp, st, t) ==
    LET filename == FileName(symbol, Today(t))
    IN  IF resp.status # "ok"
        THEN [raised |-> TRUE, path |-> filename, net |-> TRUE, store |-> st]
        ELSE [raised |-> FALSE, path |-> filename, net |-> TRUE,
              store |-> WriteFile(st, filename, resp.body)]

\* extract that opens the file for writing before it fetches
extract_openfirst(symbol, overwrite, resp, st, t) ==
    LET filename == FileName(symbol, Today(t))
    IN  IF filename \in DOMAIN st /\ ~overwrite
        THEN [raised |-> FALSE, path |-> filename, net |-> FALSE, store |-> st]
        ELSE IF resp.status # "ok"
             THEN [raised |-> TRUE, path |-> filename, net |-> TRUE,
                   store |-> WriteFile(st, filename, P_Empty)]
             ELSE [raised |-> FALSE, path |-> filename, net |-> TRUE,
                   store |-> WriteFile(st, filename, resp.body)]

\* the outcome of extract(symbol, overwrite) at clock t on store st when the
\* remote answers resp: raised or returned path, whether the network was
\* called, and the store afterwards
extract(symbol, overwrite, resp, st, t) ==
    LET filename == FileName(symbol, Today(t))
    IN  IF filename \in DOMAIN st /\ ~overwrite
        THEN [raised |-> FALSE, path |-> filename, net |-> FALSE, store |-> st]
        ELSE IF resp.status # "ok"
             THEN [raised |-> TRUE, path |-> filename, net |-> TRUE, store |-> st]
             ELSE [raised |-> FALSE, path |-> filename, net |-> TRUE,
                   store |-> WriteFile(st, filename, resp.body)]

\* the effect of one extract call on the store, the call counter and last
ExtractCall(symbol, overwrite, resp) ==
    LET r == extract(symbol, overwrite, resp, store, now)
    IN  /\ r.net => netCalls < MaxCalls
        /\ store' = r.store
        /\ netCalls' = IF r.net THEN netCalls + 1 ELSE netCalls
        /\ last' = [op |-> "extract", symbol |-> symbol, overwrite |-> overwrite,
                    raised |-> r.raised, ret |-> r.path, net |-> r.net,
                    status |-> resp.status]

Idle == run.pc \in {"idle", "returned", "raised"} /\ ~txn.active

\* a call extract(symbol, overwrite)
Extract(symbol, overwrite, resp) ==
    /\ Idle
    /\ ExtractCall(symbol, overwrite, resp)
    /\ UNCHANGED <<conc, now, pydantic, table, nextId, txn, run, history>>

(***************************************************************************)
(* extract step by step: calls that overlap or are cut short               *)
(***************************************************************************)
\* the number of writes in which the buffered text of json.dump reaches the
\* file
Chunks == 2

\* a place of a file no write has filled since the file was truncated
Hole == [of |-> P_Empty, part |-> 0]

\* the text json.dump writes for a payload, cut at the writes
Text(data) == [k \in 1..Chunks |-> [of |-> data, part |-> k]]

\* the file right after filename.open("w"): it exists and is empty
Truncated == [k \in 1..Chunks |-> Hole]

\* symbols and answers of the step-wise extract calls
XSymbols == {"AAPL", "GOOG"}
XPayloads == {P_Good, P_Other}
XResponses == {Response("ok", data) : data \in XPayloads} \cup {Response("error", P_NoSeries)}

\* the file is the full text of one payload, so json.load gives that payload
Whole(file) == \E data \in XPayloads : file = Text(data)

\* the record of a finished step-wise call
XDone(w, raised, net, status) ==
    [op |-> "extract", symbol |-> w.symbol, overwrite |-> w.overwrite,
     raised |-> raised, ret |-> w.path, net |-> net, status |-> status]

\* main.py:50-53: the file name and the test of the cache
XStart(p, symbol, overwrite) ==
    LET filename == FileName(symbol, Today(now))
        w == [NoWorker EXCEPT !.pc = "fetch", !.symbol = symbol,
                              !.overwrite = overwrite, !.path = filename]
    IN  /\ Idle
        /\ conc.ex[p].pc = "idle"
        /\ IF filename \in DOMAIN store /\ ~overwrite
           THEN /\ last' = XDone(w, FALSE, FALSE, "none")
                /\ UNCHANGED conc
           ELSE /\ conc' = [conc EXCEPT !.ex[p] = w]
                /\ UNCHANGED last
        /\ UNCHANGED <<now, pydantic, store, netCalls, table, nextId, txn, run, history>>

\* main.py:55-58: the request, raise_for_status and the decoding
XFetch(p, resp) ==
    LET w == conc.ex[p]
    IN  /\ w.pc = "fetch"
        /\ netCalls < MaxCalls
        /\ netCalls' = netCalls + 1
        /\ IF resp.status # "ok"
           THEN /\ conc' = [conc EXCEPT !.ex[p] = NoWorker]
                /\ last' = XDone(w, TRUE, TRUE, resp.status)
           ELSE /\ conc' = [conc EXCEPT !.ex[p] = [w EXCEPT !.pc = "open", !.data = resp.body]]
                /\ UNCHANGED last
        /\ UNCHANGED <<now, pydantic, store, table, nextId, txn, run, history>>

\* main.py:60: filename.open("w") creates the file or cuts it to nothing
XOpen(p) ==
    LET w == conc.ex[p]
    IN  /\ w.pc = "open"
        /\ store' = WriteFile(store, w.path, Truncated)
        /\ conc' = [conc EXCEPT !.ex[p] = [w EXCEPT !.pc = "dump"]]
        /\ UNCHANGED <<now, pydantic, netCalls, table, nextId, txn, run, history, last>>

\* main.py:61-62: one write of json.dump at the position of this call's own
\* file object; after the last one the file is closed and extract returns
XDump(p) ==
    LET w == conc.ex[p]
        k == w.i + 1
    IN  /\ w.pc = "dump"
        /\ store' = [store EXCEPT ![w.path][k] = [of |-> w.data, part |-> k]]
        /\ IF k = Chunks
           THEN /\ conc' = [conc EXCEPT !.ex[p] = NoWorker]
                /\ last' = XDone(w, FALSE, TRUE, "ok")
           ELSE /\ conc' = [conc EXCEPT !.ex[p] = [w EXCEPT !.i = k]]
                /\ UNCHANGED last
        /\ UNCHANGED <<now, pydantic, netCalls, table, nextId, txn, run, history>>

\* the run is interrupted inside extract: the call ends where it is, and
\* what it wrote so far stays in the file
XInterrupt(p) ==
    LET w == conc.ex[p]
    IN  /\ w.pc # "idle"
        /\ conc' = [conc EXCEPT !.ex[p] = NoWorker]
        /\ last' = [op |-> "interrupt", symbol |-> w.symbol, ret |-> w.path, at |-> w.pc]
        /\ UNCHANGED <<now, pydantic, store, netCalls, table, nextId, txn, run, history>>

(***************************************************************************)
(* load (main.py:103-147)                                                  *)
(***************************************************************************)
\* datetime.now(UTC).replace(microsecond=0).isoformat() with "Z"
UtcIso(t) == [sec |-> t, zone |-> "Z"]

\* one tuple of out[cols]: renamed price columns, ISO date text, timestamp
OutRow(r, ts) ==
    [symbol |-> r.symbol, date |-> IsoDate(r.date),
     open_price |-> r.open, high_price |-> r.high, low_price |-> r.low,
     close_price |-> r.close, volume |-> r.volume,
     daily_change_percentage |-> r.daily_change_percentage,
     extraction_timestamp |-> ts]

\* sqlite3 binds a float nan as NULL, which the NOT NULL column rejects;
\* inf is a REAL and is stored
NotNull(o) == o.daily_change_percentage.kind # "nan"

\* the rows the UNIQUE(symbol, date) index finds for a tuple
Conflict(rows, o) == {x \in rows : x.symbol = o.symbol /\ x.date = o.date}

\* ON CONFLICT(symbol, date) DO NOTHING
Upsert_ignore(rows, seq, o) ==
    IF Conflict(rows, o) = {}
    THEN [rows |-> rows \cup {[id |-> seq] @@ o}, seq |-> seq + 1]
    ELSE [rows |-> rows, seq |-> seq]

\* INSERT OR REPLACE: the conflicting row is deleted and a new one inserted
Upsert_replace(rows, seq, o) ==
    [rows |-> (rows \ Conflict(rows, o)) \cup {[id |-> seq] @@ o}, seq |-> seq + 1]

\* an upsert whose update has no WHERE: every row takes the new timestamp
Upsert_touchall(rows, seq, o) ==
    LET kept == {[x EXCEPT !.extraction_timestamp = o.extraction_timestamp] :
                    x \in rows \ Conflict(rows, o)}
    IN  IF Conflict(rows, o) = {}
        THEN [rows |-> kept \cup {[id |-> seq] @@ o}, seq |-> seq + 1]
        ELSE [rows |-> kept \cup {[id |-> x.id] @@ o : x \in Conflict(rows, o)},
              seq |-> seq]

\* an upsert whose SET list leaves out extraction_timestamp
Upsert_partial(rows, seq, o) ==
    IF Conflict(rows, o) = {}
    THEN [rows |-> rows \cup {[id |-> seq] @@ o}, seq |-> seq + 1]
    ELSE [rows |-> (rows \ Conflict(rows, o))
                   \cup {[[id |-> x.id] @@ o EXCEPT
                              !.extraction_timestamp = x.extraction_timestamp] :
                            x \in Conflict(rows, o)},
          seq |-> seq]

\* INSERT ... ON CONFLICT(symbol, date) DO UPDATE SET ...: a new row takes the
\* next id; a conflicting row keeps id, symbol and date and takes the rest
Upsert(rows, seq, o) ==
    IF Conflict(rows, o) = {}
    THEN [rows |-> rows \cup {[id |-> seq] @@ o}, seq |-> seq + 1]
    ELSE [rows |-> (rows \ Conflict(rows, o))
                   \cup {[id |-> x.id] @@ o : x \in Conflict(rows, o)},
          seq |-> seq]

\* how a load call ends for its caller: run_once ends with it
RunAfterLoad(raised, err) ==
    IF txn.who = "run"
    THEN [run EXCEPT !.pc = IF raised THEN "raised" ELSE "returned", !.err = err]
    ELSE run

\* load(df) is entered: an empty frame returns 0 at once; otherwise the
\* timestamp is taken, the connection opened, init_db run and the
\* transaction of executemany begun
LoadCall(df, who) ==
    IF df = <<>>
    THEN /\ last' = [op |-> "load", df |-> df, raised |-> FALSE, err |-> NoErr,
                     ret |-> RetInt(0), before |-> table, done |-> 0,
                     ts |-> UtcIso(now)]
         /\ txn' = txn
    ELSE /\ txn' = [active |-> TRUE, who |-> who, df |-> df, ts |-> UtcIso(now),
                    i |-> 1, rows |-> table, seq |-> nextId, before |-> table]
         /\ last' = last

\* a call load(df)
Load(df) ==
    /\ Idle
    /\ Len(history) < MaxLoads
    /\ LoadCall(df, "call")
    /\ UNCHANGED <<conc, now, pydantic, store, netCalls, table, nextId, run, history>>

\* executemany: the next tuple is upserted inside the open transaction
LoadRow ==
    /\ txn.active /\ txn.i <= Len(txn.df)
    /\ LET o == OutRow(txn.df[txn.i], txn.ts)
           w == Upsert(txn.rows, txn.seq, o)
       IN  /\ NotNull(o)
           /\ txn' = [txn EXCEPT !.i = txn.i + 1, !.rows = w.rows, !.seq = w.seq]
    /\ UNCHANGED <<conc, now, pydantic, store, netCalls, table, nextId, run, history, last>>

LoadFailed(err) ==
    /\ txn' = NoTxn
    /\ run' = RunAfterLoad(TRUE, err)
    /\ last' = [op |-> "load", df |-> txn.df, raised |-> TRUE, err |-> err,
                ret |-> RetNone, before |-> txn.before, done |-> txn.i - 1,
                ts |-> txn.ts]

\* a failed load that keeps what its transaction wrote so far
LoadRejected_partial ==
    /\ txn.active /\ txn.i <= Len(txn.df)
    /\ ~NotNull(OutRow(txn.df[txn.i], txn.ts))
    /\ LoadFailed(Err("IntegrityError", "none", "NOT NULL constraint failed"))
    /\ table' = txn.rows
    /\ nextId' = txn.seq
    /\ UNCHANGED <<conc, now, pydantic, store, netCalls, history>>

\* the storage layer rejects the next tuple: executemany raises, the with
\* block rolls the transaction back and the exception leaves load
LoadRejected ==
    /\ txn.active /\ txn.i <= Len(txn.df)
    /\ ~NotNull(OutRow(txn.df[txn.i], txn.ts))
    /\ LoadFailed(Err("IntegrityError", "none", "NOT NULL constraint failed"))
    /\ UNCHANGED <<conc, now, pydantic, store, netCalls, table, nextId, history>>

\* the call is interrupted, or the storage layer fails, at any point of the
\* open transaction: nothing of it was committed
LoadInterrupted ==
    /\ txn.active
    /\ LoadFailed(Err("OperationalError", "none", "interrupted"))
    /\ UNCHANGED <<conc, now, pydantic, store, netCalls, table, nextId, history>>

\* conn.commit() after the last tuple; load falls off its end and returns None
LoadCommit ==
    /\ txn.active /\ txn.i > Len(txn.df)
    /\ table' = txn.rows
    /\ nextId' = txn.seq
    /\ history' = Append(history, [df |-> txn.df, ts |-> txn.ts])
    /\ txn' = NoTxn
    /\ run' = RunAfterLoad(FALSE, NoErr)
    /\ last' = [op |-> "load", df |-> txn.df, raised |-> FALSE, err |-> NoErr,
                ret |-> RetNone, before |-> txn.before, done |-> Len(txn.df),
                ts |-> txn.ts]
    /\ UNCHANGED <<conc, now, pydantic, store, netCalls>>

(***************************************************************************)
(* load calls that overlap: each has its own connection to the database    *)
(***************************************************************************)
\* the load calls that are running
Loading == {q \in Procs : conc.ld[q].pc # "idle"}

\* the record of a finished load call of process p
CDone(p, raised, err, ret) ==
    [op |-> "load", df |-> conc.ld[p].df, raised |-> raised, err |-> err, ret |-> ret,
     before |-> table, done |-> conc.ld[p].i - 1, ts |-> conc.ld[p].ts,
     met |-> conc.ld[p].met]

\* load(df) is entered by process p: an empty frame returns 0 at once;
\* otherwise the timestamp is taken and the connection opened
CStart(p, df) ==
    /\ Idle
    /\ conc.ld[p].pc = "idle"
    /\ Len(history) + Cardinality(Loading) < MaxLoads
    /\ IF df = <<>>
       THEN /\ last' = [CDone(p, FALSE, NoErr, RetInt(0)) EXCEPT !.ts = UtcIso(now)]
            /\ UNCHANGED conc
       ELSE /\ conc' = [conc EXCEPT
                 !.ld = [q \in Procs |->
                           IF q = p
                           THEN [pc |-> "write", df |-> df, ts |-> UtcIso(now), i |-> 1,
                                 met |-> Loading # {}]
                           ELSE IF q \in Loading THEN [conc.ld[q] EXCEPT !.met = TRUE]
                           ELSE conc.ld[q]]]
            /\ UNCHANGED last
    /\ UNCHANGED <<now, pydantic, store, netCalls, table, nextId, txn, run, history>>

\* executemany of process p: the first tuple begins the transaction and
\* takes the write lock of the database, which one connection holds at a
\* time; each tuple is upserted in the transaction
CRow(p) ==
    LET l == conc.ld[p]
        mine == conc.lock = p
        o == OutRow(l.df[l.i], l.ts)
        w == IF mine THEN Upsert(conc.rows, conc.seq, o) ELSE Upsert(table, nextId, o)
    IN  /\ l.pc = "write" /\ l.i <= Len(l.df)
        /\ conc.lock \in {0, p}
        /\ NotNull(o)
        /\ conc' = [conc EXCEPT !.ld[p].i = l.i + 1, !.lock = p,
                                !.rows = w.rows, !.seq = w.seq]
        /\ UNCHANGED <<now, pydantic, store, netCalls, table, nextId, txn, run, history, last>>

\* another connection holds the write lock for longer than the timeout of
\* sqlite3.connect: executemany raises and load ends with the exception
CBusy(p) ==
    /\ conc.ld[p].pc = "write"
    /\ conc.lock \notin {0, p}
    /\ conc' = [conc EXCEPT !.ld[p] = NoLoader]
    /\ last' = CDone(p, TRUE, Err("OperationalError", "none", "database is locked"), RetNone)
    /\ UNCHANGED <<now, pydantic, store, netCalls, table, nextId, txn, run, history>>

\* conn.commit() of process p after its last tuple: its rows become the
\* table, the lock is released and load returns None
CCommit(p) ==
    LET l == conc.ld[p]
    IN  /\ l.pc = "write" /\ l.i > Len(l.df)
        /\ conc.lock = p
        /\ table' = conc.rows
        /\ nextId' = conc.seq
        /\ history' = Append(history, [df |-> l.df, ts |-> l.ts])
        /\ conc' = [conc EXCEPT !.ld[p] = NoLoader, !.lock = 0, !.rows = {}, !.seq = 0]
        /\ last' = CDone(p, FALSE, NoErr, RetNone)
        /\ UNCHANGED <<now, pydantic, store, netCalls, txn, run>>

(***************************************************************************)
(* run_once (main.py:150-152)                                              *)
(***************************************************************************)
\* run_once() is called
RunStart ==
    /\ Idle
    /\ Len(history) < MaxLoads
    /\ run' = [pc |-> "extract", i |-> 1, attempted |-> {}, err |-> NoErr,
               ret |-> RetNone]
    /\ UNCHANGED <<conc, now, pydantic, store, netCalls, table, nextId, txn, history, last>>

\* for s in SYMBOLS: extract(s) -- an exception of extract leaves run_once
RunExtract(resp) ==
    /\ run.pc = "extract"
    /\ LET s == SYMBOLS[run.i]
           r == extract(s, FALSE, resp, store, now)
       IN  /\ ExtractCall(s, FALSE, resp)
           /\ run' = [run EXCEPT
                        !.attempted = run.attempted \cup {s},
                        !.i = run.i + 1,
                        !.err = IF r.raised THEN Err("FetchError", s, "fetch failed")
                                ELSE NoErr,
                        !.pc = IF r.raised THEN "raised"
                               ELSE IF run.i = Len(SYMBOLS) THEN "transform"
                               ELSE "extract"]
    /\ UNCHANGED <<conc, now, pydantic, table, nextId, txn, history>>

\* load(transform(SYMBOLS)): an exception of transform leaves run_once before
\* load is entered
RunTransform ==
    /\ run.pc = "transform"
    /\ LET r == transform(SYMBOLS, store, pydantic)
       IN  IF ~r.ok
           THEN /\ run' = [run EXCEPT !.pc = "raised", !.err = r.err]
                /\ last' = [op |-> "transform", symbols |-> SYMBOLS,
                            ok |-> r.ok, df |-> r.df, err |-> r.err]
                /\ txn' = txn
           ELSE /\ LoadCall(r.df, "run")
                /\ run' = [run EXCEPT !.pc = IF r.df = <<>> THEN "returned" ELSE "load"]
    /\ UNCHANGED <<conc, now, pydantic, store, netCalls, table, nextId, history>>

(***************************************************************************)
(* Specifications                                                          *)
(***************************************************************************)
\* answers of the remote to the fetches of run_once
RunResponses ==
    {Response("ok", P_Good), Response("ok", P_ZeroInf), Response("ok", P_ZeroNaN),
     Response("ok", P_NoSeries), Response("error", P_NoSeries)}

\* the pipeline: run_once called again and again while the clock runs
Init ==
    /\ pydantic \in {"v1", "v2"}
    /\ store = EmptyStore
    /\ InitRest

Next ==
    \/ Tick
    \/ RunStart
    \/ \E resp \in RunResponses : RunExtract(resp)
    \/ RunTransform
    \/ LoadRow
    \/ LoadRejected
    \/ LoadInterrupted
    \/ LoadCommit

Spec == Init /\ [][Next]_vars

\* symbols and answers of the extract calls
ESymbols == {"AAPL", "GOOG", "GOOG_L"}
EResponses ==
    {Response("ok", P_Good), Response("ok", P_NoSeries),
     Response("error", P_NoSeries), Response("timeout", P_NoSeries)}

\* extract called with any symbol and flag while the clock runs
NextE ==
    \/ Tick
    \/ \E s \in ESymbols, ov \in BOOLEAN, resp \in EResponses : Extract(s, ov, resp)

SpecE == Init /\ [][NextE]_vars

\* symbols, answers and symbol lists of extract calls followed by transforms
BSymbols == {"GOOG", "GOOG_L"}
BResponses ==
    {Response("ok", P_Good), Response("ok", P_NoSeries), Response("error", P_NoSeries)}
BSymbolLists == {<<"GOOG">>, <<"GOOG_L">>, <<"GOOG_L", "GOOG">>}

\* extract and transform called in any order while the clock runs
NextB ==
    \/ Tick
    \/ \E s \in BSymbols, ov \in BOOLEAN, resp \in BResponses : Extract(s, ov, resp)
    \/ \E symbols \in BSymbolLists : Transform(symbols)

SpecB == Init /\ [][NextB]_vars

\* extract calls of one day that run side by side
NextX ==
    \E p \in Procs :
        \/ \E s \in XSymbols, ov \in BOOLEAN : XStart(p, s, ov)
        \/ \E resp \in XResponses : XFetch(p, resp)
        \/ XOpen(p)
        \/ XDump(p)

SpecX == Init /\ [][NextX]_vars

\* the extract calls of a run, one after the other, interrupted at any point
NextI ==
    \/ Tick
    \/ \E s \in XSymbols, ov \in BOOLEAN : XStart(1, s, ov)
    \/ \E resp \in XResponses : XFetch(1, resp)
    \/ XOpen(1)
    \/ XDump(1)
    \/ XInterrupt(1)

SpecI == Init /\ [][NextI]_vars

\* datasets handed to load: what transform returns for small stores
LStore(pa, pg) == (FileName("AAPL", 1) :> pa) @@ (FileName("GOOG", 1) :> pg)
LDatasets ==
    {<<>>,
     transform(<<"AAPL">>, LStore(P_Good, P_Good), "v2").df,
     transform(<<"AAPL">>, LStore(P_Other, P_Good), "v2").df,
     transform(<<"AAPL", "GOOG">>, LStore(P_Other, P_Good), "v2").df,
     transform(<<"AAPL", "GOOG">>, LStore(P_Good, P_ZeroNaN), "v2").df,
     transform(<<"GOOG">>, LStore(P_Good, P_ZeroInf), "v2").df}

InitL ==
    /\ pydantic = "v2"
    /\ store = EmptyStore
    /\ InitRest

\* load called with any of the datasets while the clock runs
NextL ==
    \/ Tick
    \/ \E df \in LDatasets : Load(df)
    \/ LoadRow
    \/ LoadRejected
    \/ LoadInterrupted
    \/ LoadCommit

SpecL == InitL /\ [][NextL]_vars

\* datasets of the load calls that overlap: two of them differ in the prices
\* of one (symbol, date)
CDatasets ==
    {<<>>,
     transform(<<"AAPL">>, LStore(P_Good, P_Good), "v2").df,
     transform(<<"AAPL">>, LStore(P_Other, P_Good), "v2").df,
     transform(<<"AAPL", "GOOG">>, LStore(P_Other, P_Good), "v2").df}

\* load calls that run side by side while the clock runs
NextC ==
    \/ Tick
    \/ \E p \in Procs :
          \/ \E df \in CDatasets : CStart(p, df)
          \/ CRow(p)
          \/ CBusy(p)
          \/ CCommit(p)

SpecC == InitL /\ [][NextC]_vars

(***************************************************************************)
(* Properties of transform                                                 *)
(***************************************************************************)
TransformReturned == last.op = "transform" /\ last.ok

\* the per-symbol rows of the last transform call, in concatenation order
Concatenated == Frames(last.symbols, 1, <<>>, store, pydantic).df

Occurrences(rows, r) == {j \in 1..Len(rows) : SameKey(rows[j], r)}

Least(S) == CHOOSE x \in S : \A y \in S : x <= y
Greatest(S) == CHOOSE x \in S : \A y \in S : y <= x

UniqueKeys(rows) ==
    \A i, j \in 1..Len(rows) : SameKey(rows[i], rows[j]) => i = j

\* C5 as stated: the dataset returned by transform has one row per
\* (symbol, date), every key of the concatenated rows is in it, and the row
\* kept for a key is its LAST occurrence in concatenation order.
C5_KeepsLastSeen ==
    TransformReturned =>
        /\ UniqueKeys(last.df)
        /\ \A j \in 1..Len(Concatenated) :
              \E i \in 1..Len(last.df) :
                 /\ SameKey(last.df[i], Concatenated[j])
                 /\ last.df[i] = Concatenated[Greatest(Occurrences(Concatenated, Concatenated[j]))]

\* C5 amended: the dataset returned by transform has one row per
\* (symbol, date), every key of the concatenated rows is in it, and the row
\* kept for a key is its FIRST occurrence in concatenation order.
C5_KeepsFirstSeen ==
    TransformReturned =>
        /\ UniqueKeys(last.df)
        /\ \A j \in 1..Len(Concatenated) :
              \E i \in 1..Len(last.df) :
                 /\ SameKey(last.df[i], Concatenated[j])
                 /\ last.df[i] = Concatenated[Least(Occurrences(Concatenated, Concatenated[j]))]

\* a transform returned after dropping a row whose values differ from the
\* row kept for its key
C5_Witness ==
    /\ TransformReturned
    /\ \E j, k \in 1..Len(Concatenated) :
          /\ j < k
          /\ SameKey(Concatenated[j], Concatenated[k])
          /\ Concatenated[j] # Concatenated[k]
          /\ \E i \in 1..Len(last.df) : last.df[i] = Concatenated[j]

\* C6: for every order of the symbols argument and of the date entries in
\* the snapshots, the dataset returned by transform is sorted ascending by
\* (symbol, date): rows of a smaller symbol come first, and within a symbol
\* the dates increase.
C6_SortedBySymbolDate ==
    TransformReturned =>
        \A i, j \in 1..Len(last.df) :
            i < j =>
                \/ SymRank(last.df[i].symbol) < SymRank(last.df[j].symbol)
                \/ /\ last.df[i].symbol = last.df[j].symbol
                   /\ last.df[i].date < last.df[j].date

\* transform(["MSFT", "AAPL"]) returned two dates for each symbol, from
\* snapshots that list the later date first
C6_Witness ==
    /\ TransformReturned
    /\ last.symbols = <<"MSFT", "AAPL">>
    /\ Len(last.df) = 4
    /\ store[FileName("AAPL", 1)].series[1].d.day > store[FileName("AAPL", 1)].series[2].d.day

\* the store holds a snapshot written for this symbol
HasSnapshot(symbol) == \E f \in DOMAIN store : f.symbol = symbol

\* the symbols before position i of the last transform call all parsed
EarlierParsed(i) ==
    Frames(SubSeq(last.symbols, 1, i - 1), 1, <<>>, store, pydantic).ok

\* C7 as stated, read in the claim's favour where a symbol earlier in the
\* list fails first: if a requested symbol has no snapshot in the store,
\* transform fails for the whole call and returns no dataset, and when no
\* earlier symbol of the list failed the error is the not-found error for
\* that symbol.
C7_MissingSnapshotFails ==
    last.op = "transform" =>
        \A i \in 1..Len(last.symbols) :
            ~HasSnapshot(last.symbols[i]) =>
                /\ ~last.ok
                /\ last.df = <<>>
                /\ EarlierParsed(i) =>
                      /\ last.err.kind = "FileNotFoundError"
                      /\ last.err.symbol = last.symbols[i]

\* C8 as stated, read in the claim's favour where a symbol earlier in the
\* list fails first: if the snapshot transform reads for a requested symbol
\* lacks the time-series container, transform fails and returns no dataset,
\* and when no earlier symbol of the list failed the error is the schema
\* error naming that symbol.
C8_SchemaErrorNamesSymbol ==
    last.op = "transform" =>
        \A i \in 1..Len(last.symbols) :
            LET raw_path == _latest_file_for(last.symbols[i], store)
            IN  (raw_path.ok /\ ~store[raw_path.path].container) =>
                    /\ ~last.ok
                    /\ last.df = <<>>
                    /\ EarlierParsed(i) =>
                          /\ last.err.msg = "invalid API payload"
                          /\ last.err.symbol = last.symbols[i]

(***************************************************************************)
(* Properties of extract and run_once                                      *)
(***************************************************************************)
\* C1: once a snapshot for (symbol, today) exists, a call
\* extract(symbol, overwrite=false) made on that date makes no network call
\* and leaves the store as it is; so of two such calls the second never
\* fetches.
C1_NoRefetchOnceCached ==
    [][(/\ last'.op = "extract"
        /\ ~last'.overwrite
        /\ FileName(last'.symbol, Today(now)) \in DOMAIN store)
       => (netCalls' = netCalls /\ store' = store)]_vars

\* a call with overwrite=false returned without fetching when the only
\* network call so far was the one that wrote today's snapshot
C1_Witness ==
    /\ last.op = "extract" /\ ~last.overwrite /\ ~last.raised /\ ~last.net
    /\ netCalls = 1
    /\ last.ret \in DOMAIN store
    /\ last.ret = FileName(last.symbol, Today(now))

\* C4 as stated: when the extraction phase of run_once is over, however it
\* ended, extract was attempted for every symbol of the list.
C4_AllSymbolsAttempted ==
    run.pc \in {"transform", "load", "returned", "raised"} =>
        run.attempted = {SYMBOLS[i] : i \in 1..Len(SYMBOLS)}

\* C9 as stated, for the rows load stores: no persisted row has an infinite
\* or undefined daily_change_percentage.
C9_NoUndefinedChangeStored ==
    \A x \in table : x.daily_change_percentage.kind = "num"

(***************************************************************************)
(* Properties of load                                                      *)
(***************************************************************************)
\* the row of the table a tuple of a load call turns into
Stored(x, r, ts) == x = ([id |-> x.id] @@ OutRow(r, ts))

\* the committed load calls whose dataset contains the key of row r
LoadsOf(symbol, date) ==
    {h \in 1..Len(history) :
        \E i \in 1..Len(history[h].df) :
            /\ history[h].df[i].symbol = symbol
            /\ IsoDate(history[h].df[i].date) = date}

\* C2: after any sequence of load calls the table holds at most one row
\* per (symbol, date), a row for every key some load wrote and for no other,
\* and the fields of that row are those of the most recent load call whose
\* dataset contained the key, with that call's timestamp.
C2_UpsertKeepsLatest ==
    /\ \A x, y \in table : (x.symbol = y.symbol /\ x.date = y.date) => x = y
    /\ \A x \in table : LoadsOf(x.symbol, x.date) # {}
    /\ \A h \in 1..Len(history) :
          \A i \in 1..Len(history[h].df) :
             LET r == history[h].df[i]
                 m == Greatest(LoadsOf(r.symbol, IsoDate(r.date)))
             IN  \E x \in table :
                    \E j \in 1..Len(history[m].df) :
                       /\ SameKey(history[m].df[j], r)
                       /\ Stored(x, history[m].df[j], history[m].ts)

\* two loads wrote the same key with different close prices at different
\* seconds, and the table holds the second
C2_Witness ==
    /\ Len(history) = 2
    /\ history[1].ts # history[2].ts
    /\ \E i \in 1..Len(history[1].df), j \in 1..Len(history[2].df) :
          /\ SameKey(history[1].df[i], history[2].df[j])
          /\ history[1].df[i].close # history[2].df[j].close
          /\ \E x \in table : Stored(x, history[2].df[j], history[2].ts)

\* C3: a load call is all-or-nothing: while its transaction is open and
\* after it failed or was interrupted at any row, the table is what it was
\* before the call; after it completed, every row of its dataset is in the
\* table.
C3_LoadAllOrNothing ==
    /\ txn.active => table = txn.before
    /\ (last.op = "load" /\ last.raised) => table = last.before
    /\ (last.op = "load" /\ ~last.raised) =>
          \A i \in 1..Len(last.df) : \E x \in table : Stored(x, last.df[i], last.ts)

\* the storage layer rejected a row after earlier rows of the same call had
\* been written, rows the table did not hold before, and none of them shows
C3_Witness ==
    /\ last.op = "load" /\ last.raised
    /\ last.err.kind = "IntegrityError"
    /\ last.done >= 1
    /\ table = last.before
    /\ \A i \in 1..last.done : ~\E x \in table : Stored(x, last.df[i], last.ts)

\* C10 as stated: load returns the number of rows it wrote, 0 for an empty
\* dataset and the count of the dataset's rows otherwise.
C10_ReturnsRowCount ==
    (last.op = "load" /\ ~last.raised) => last.ret = RetInt(Len(last.df))

(***************************************************************************)
(* Properties of the snapshot store                                        *)
(***************************************************************************)
\* C12: no step removes a snapshot, and an extract call with
\* overwrite=false leaves the content of every snapshot that exists as it
\* is (the store holds one content per (symbol, date) file name).
C12_SnapshotsKept ==
    [][/\ DOMAIN store \subseteq DOMAIN store'
       /\ (last'.op = "extract" /\ ~last'.overwrite) =>
             \A f \in DOMAIN store : store'[f] = store[f]]_vars

\* a call with overwrite=false skipped on today's snapshot while a snapshot
\* of an earlier day is still in the store
C12_Witness ==
    /\ last.op = "extract" /\ ~last.overwrite /\ ~last.net
    /\ last.ret \in DOMAIN store
    /\ \E f \in DOMAIN store : f.date < Today(now)

\* C13 as stated: for a symbol with one or more snapshots, the snapshot
\* looked up is a snapshot of that symbol, the one with the greatest as-of
\* date.
C13_LatestIsOwnNewest ==
    (last.op = "latest" /\ HasSnapshot(last.symbol)) =>
        /\ last.ok
        /\ last.path.symbol = last.symbol
        /\ \A f \in DOMAIN store : f.symbol = last.symbol => f.date <= last.path.date

\* C14 as stated: a call that skips on today's snapshot returns a result
\* that differs from the result of the call that fetched and wrote it.
C14_SkipDiffersFromFetch ==
    [][(/\ last.op = "extract" /\ last'.op = "extract"
        /\ last.net /\ ~last.raised
        /\ ~last'.net /\ ~last'.raised
        /\ last'.symbol = last.symbol
        /\ Today(now') = Today(now))
       => last'.ret # last.ret]_vars

\* C18: when the remote fetch of an extract call fails (a non-success
\* status or a transport failure), the call ends in an error and the store
\* is unchanged, also with overwrite=true on an existing snapshot.
C18_FailedFetchKeepsStore ==
    [][(last'.op = "extract" /\ netCalls' # netCalls /\ last'.status # "ok")
       => (last'.raised /\ store' = store)]_vars

\* a call with overwrite=true raised and today's snapshot still holds the
\* payload written before
C18_Witness ==
    /\ last.op = "extract" /\ last.overwrite /\ last.raised
    /\ last.ret \in DOMAIN store
    /\ store[last.ret] = P_Good

(***************************************************************************)
(* Frame properties of load                                                *)
(***************************************************************************)
\* C15: when load writes a row whose (symbol, date) exists, the existing
\* row keeps its id, symbol and date; ids stay unique and every new row
\* takes an id above all existing ones, so the id order of the rows that
\* existed is unchanged.
C15_UpsertKeepsIdentity ==
    [][/\ \A x \in table :
             \E y \in table' : y.id = x.id /\ y.symbol = x.symbol /\ y.date = x.date
       /\ \A y, z \in table' : y.id = z.id => y = z
       /\ \A y \in table' :
             (\A x \in table : x.id # y.id) => \A x \in table : x.id < y.id]_vars

\* a load overwrote the close price of a row that existed, next to another
\* row, and the row has the id it had
C15_Witness ==
    /\ last.op = "load" /\ ~last.raised
    /\ Cardinality(last.before) >= 2
    /\ \E x \in last.before, y \in table :
          /\ y.id = x.id
          /\ y.close_price # x.close_price

\* the dataset of a load call has a row for the key of table row x
InDataset(df, x) ==
    \E i \in 1..Len(df) : df[i].symbol = x.symbol /\ IsoDate(df[i].date) = x.date

\* C19: load never removes a key from the table, and a row whose key is
\* not in the loaded dataset keeps all its fields, the timestamp included.
C19_LoadTouchesOnlyItsKeys ==
    [][\A x \in table :
          /\ \E y \in table' : y.symbol = x.symbol /\ y.date = x.date
          /\ x \in table' \/ (last'.op = "load" /\ InDataset(last'.df, x))]_vars

\* a load committed while the table held a row of another key, which is
\* still there with its older timestamp
C19_Witness ==
    /\ last.op = "load" /\ ~last.raised /\ last.df # <<>>
    /\ \E x \in last.before :
          /\ ~InDataset(last.df, x)
          /\ x \in table
          /\ x.extraction_timestamp # last.ts

(***************************************************************************)
(* A cached payload without the series                                     *)
(***************************************************************************)
\* the newest snapshot among the snapshots of the symbol itself
OwnLatest(symbol) ==
    CHOOSE f \in DOMAIN store :
        /\ f.symbol = symbol
        /\ \A g \in DOMAIN store : g.symbol = symbol => g.date <= f.date

\* C20 as stated: while the newest snapshot of a symbol is a payload
\* without the time-series container, every transform whose list includes
\* that symbol fails.
C20_BadSnapshotFailsTransform ==
    (/\ last.op = "transform"
     /\ \E i \in 1..Len(last.symbols) :
           /\ HasSnapshot(last.symbols[i])
           /\ ~store[OwnLatest(last.symbols[i])].container)
    => ~last.ok

(***************************************************************************)
(* Snapshots after overlapping or interrupted extract calls                *)
(***************************************************************************)
\* C16 as stated: once the extract calls that ran side by side are all
\* over, every snapshot in the store is the complete payload of one call.
C16_OverlappingWritesLeaveWhole ==
    (\A p \in Procs : conc.ex[p].pc = "idle") =>
        \A f \in DOMAIN store : Whole(store[f])

\* C17 as stated: a snapshot that exists and that no running call is
\* writing is a complete payload, also after an interrupt.
C17_InterruptLeavesWhole ==
    \A f \in DOMAIN store :
        (\A p \in Procs : ~(conc.ex[p].pc = "dump" /\ conc.ex[p].path = f)) =>
            Whole(store[f])

(***************************************************************************)
(* Overlapping load calls                                                  *)
(***************************************************************************)
\* C11: under every interleaving of two load calls no call ends with a
\* uniqueness failure, the table has one row per (symbol, date), and every
\* row has all its fields from one single committed call.
C11_ConcurrentUpsertsSafe ==
    /\ (last.op = "load" /\ last.raised) => last.err.kind # "IntegrityError"
    /\ \A x, y \in table : (x.symbol = y.symbol /\ x.date = y.date) => x = y
    /\ \A x \in table :
          \E n \in 1..Len(history) :
             \E i \in 1..Len(history[n].df) :
                Stored(x, history[n].df[i], history[n].ts)

\* two load calls overlapped, both committed, and they wrote different
\* prices at different times for a key the table holds once
C11_Witness ==
    /\ last.op = "load" /\ ~last.raised /\ last.met
    /\ Len(history) >= 2
    /\ history[1].ts # history[2].ts
    /\ \E i \in 1..Len(history[1].df), j \in 1..Len(history[2].df) :
          /\ history[1].df[i].symbol = history[2].df[j].symbol
          /\ history[1].df[i].date = history[2].df[j].date
          /\ history[1].df[i].close # history[2].df[j].close
          /\ \E x \in table : Stored(x, history[2].df[j], history[2].ts)

====
